---- MODULE Spec2Model ----
(***************************************************************************)
(* A model of the ingestion-and-assembly core of osmnx (osmnx/core.py):    *)
(* _convert_node, _convert_path, _parse_osm_nodes_paths, _add_path,        *)
(* _add_paths and _create_graph.  Python dicts are functions whose domain  *)
(* is the set of keys; a dict whose iteration order is observed by the     *)
(* code (nodes, paths) also carries the sequence of its keys in insertion  *)
(* order.  The graph is networkx's MultiDiGraph: a node dict and the edges *)
(* in insertion order, each with its parallel key and its own data dict.   *)
(***************************************************************************)
EXTENDS Integers, Sequences, FiniteSets, TLC

\* ------------------------------------------------------------------ bounds
\* node ids referenced by ways are 1..MaxNode
MaxNode == 3
\* longest node-reference list of a way in the direction inputs
DirLen == 3
\* longest node-reference list of a way in the reduction inputs
MaxLen == 6
\* most elements over all batches in the merge inputs
MaxElems == 2
\* most batches in the merge inputs
MaxBatches == 2
\* most elements below the root of an OSM XML document
MaxDocElems == 2

\* ------------------------------------------------------------------ state
VARIABLES
  response_jsons,   \* _create_graph's argument: the batches, never assigned
  bidirectional,    \* _create_graph's argument
  all_oneway,       \* settings.all_oneway
  useful_tags_node, \* settings.useful_tags_node
  useful_tags_path, \* settings.useful_tags_path
  pc,               \* position in _create_graph
  G,                \* the graph under construction
  nodes,            \* _create_graph's local dict of nodes
  paths,            \* _create_graph's local dict of paths
  b,                \* index of the next batch of the parse loop
  i,                \* index of the next path of _add_paths' loop
  file,             \* the OSM XML file that graph_from_file reads
  ev,               \* index of the next SAX event of xml.sax.parse
  handler,          \* the _OSMContentHandler: its _element and its object
  heap,             \* the dicts that startElement has created, by reference
  workers           \* per batch, a classification running beside the others

vars == <<response_jsons, bidirectional, all_oneway, useful_tags_node,
          useful_tags_path, pc, G, nodes, paths, b, i, file, ev, handler, heap,
          workers>>

\* ------------------------------------------------------------------ python values
\* A dict entry 'oneway' holds either an OSM token (a str) or a Python bool;
\* the bools are written as the two tokens below, which no OSM token equals.
PyTrue == "True"
PyFalse == "False"
PyBool(flag) == IF flag THEN PyTrue ELSE PyFalse

\* the empty dict
EmptyMap == << >>

\* del d[k]
DelKey(d, k) == [x \in (DOMAIN d) \ {k} |-> d[x]]

\* d[k] = v
SetKey(d, k, v) == (k :> v) @@ d

\* an insertion-ordered dict: keys in insertion order, val the mapping
EmptyDict == [keys |-> << >>, val |-> << >>]

\* d[k].update(v) in place of d[k] = v: the entries of the old value survive
DictSet_updates_value(d, k, v) ==
  [keys |-> IF k \in DOMAIN d.val THEN d.keys ELSE Append(d.keys, k),
   val |-> SetKey(d.val, k, IF k \in DOMAIN d.val THEN v @@ d.val[k] ELSE v)]

\* d[k] = v on an insertion-ordered dict: a key already present keeps its place
DictSet(d, k, v) ==
  [keys |-> IF k \in DOMAIN d.val THEN d.keys ELSE Append(d.keys, k),
   val |-> SetKey(d.val, k, v)]

\* ------------------------------------------------------------------ conversion
\* itertools.groupby(xs) read for its group keys: a new group starts whenever
\* the element differs from the key of the current group
RECURSIVE groupby_scan(_, _, _)
groupby_scan(xs, j, acc) ==
  IF j > Len(xs) THEN acc
  ELSE IF acc # << >> /\ acc[Len(acc)] = xs[j]
       THEN groupby_scan(xs, j + 1, acc)
       ELSE groupby_scan(xs, j + 1, Append(acc, xs[j]))

\* a reduction that drops every repeat of a reference, consecutive or not
RECURSIVE unique_scan(_, _, _)
unique_scan(xs, j, acc) ==
  IF j > Len(xs) THEN acc
  ELSE IF \E k \in DOMAIN acc : acc[k] = xs[j]
       THEN unique_scan(xs, j + 1, acc)
       ELSE unique_scan(xs, j + 1, Append(acc, xs[j]))

groupby_drops_all_repeats(xs) == unique_scan(xs, 1, << >>)

\* a reduction that compares the references two by two: of a pair of equal
\* neighbours it keeps one, and it does not compare the next with that pair
RECURSIVE pairs_scan(_, _, _)
pairs_scan(xs, j, acc) ==
  IF j > Len(xs) THEN acc
  ELSE IF j < Len(xs) /\ xs[j] = xs[j + 1]
       THEN pairs_scan(xs, j + 2, Append(acc, xs[j]))
       ELSE pairs_scan(xs, j + 1, Append(acc, xs[j]))

groupby_collapses_pairs(xs) == pairs_scan(xs, 1, << >>)

\* a reduction that keeps every reference
groupby_keeps_all(xs) == xs

groupby(xs) == groupby_scan(xs, 1, << >>)

\* the tags of an element that are in the allow-list (none without 'tags')
useful_tags_of(element, useful_tags) ==
  IF "tags" \in DOMAIN element
  THEN [t \in useful_tags \cap DOMAIN element.tags |-> element.tags[t]]
  ELSE EmptyMap

_convert_node(element) ==
  useful_tags_of(element, useful_tags_node)
    @@ [y |-> element.lat, x |-> element.lon, osmid |-> element.id]

_convert_path(element) ==
  useful_tags_of(element, useful_tags_path)
    @@ [osmid |-> element.id, nodes |-> groupby(element.nodes)]

\* the loop leaving at the first element that is neither a node nor a way
RECURSIVE parse_scan_breaks(_, _, _)
parse_scan_breaks(elems, j, acc) ==
  IF j > Len(elems) THEN acc
  ELSE LET element == elems[j] IN
    IF element.type = "node"
    THEN parse_scan_breaks(elems, j + 1,
           [acc EXCEPT !.nodes = DictSet(@, element.id, _convert_node(element))])
    ELSE IF element.type = "way"
    THEN parse_scan_breaks(elems, j + 1,
           [acc EXCEPT !.paths = DictSet(@, element.id, _convert_path(element))])
    ELSE acc

\* _parse_osm_nodes_paths: the loop over osm_data['elements'] from element j on
RECURSIVE parse_scan(_, _, _)
parse_scan(elems, j, acc) ==
  IF j > Len(elems) THEN acc
  ELSE LET element == elems[j] IN
    IF element.type = "node"
    THEN parse_scan(elems, j + 1,
           [acc EXCEPT !.nodes = DictSet(@, element.id, _convert_node(element))])
    ELSE IF element.type = "way"
    THEN parse_scan(elems, j + 1,
           [acc EXCEPT !.paths = DictSet(@, element.id, _convert_path(element))])
    ELSE parse_scan(elems, j + 1, acc)

_parse_osm_nodes_paths(osm_data) ==
  parse_scan(osm_data.elements, 1, [nodes |-> EmptyDict, paths |-> EmptyDict])

\* for key, value in temp.items(): d[key] = value
RECURSIVE dict_update_scan(_, _, _)
dict_update_scan(d, temp, j) ==
  IF j > Len(temp.keys) THEN d
  ELSE dict_update_scan(DictSet(d, temp.keys[j], temp.val[temp.keys[j]]), temp, j + 1)

\* a merge that keeps the value a key already has
RECURSIVE dict_setdefault_scan(_, _, _)
dict_setdefault_scan(d, temp, j) ==
  IF j > Len(temp.keys) THEN d
  ELSE dict_setdefault_scan(
         IF temp.keys[j] \in DOMAIN d.val THEN d
         ELSE DictSet(d, temp.keys[j], temp.val[temp.keys[j]]),
         temp, j + 1)

dict_merge_keeps_first(d, temp) == dict_setdefault_scan(d, temp, 1)

\* nodes = nodes_temp in place of the loop: the batch's dict replaces the
\* merged one
dict_merge_replaces(d, temp) == temp

dict_merge(d, temp) == dict_update_scan(d, temp, 1)

\* ------------------------------------------------------------------ graph
\* nx.MultiDiGraph(...)
NewGraph == [created |-> TRUE, nodes |-> EmptyMap, edges |-> << >>]
NoGraph == [created |-> FALSE, nodes |-> EmptyMap, edges |-> << >>]

\* G.add_node(n, **attr): a new node gets attr, an existing one is updated
add_node(g, n, attr) ==
  [g EXCEPT !.nodes = IF n \in DOMAIN @ THEN SetKey(@, n, attr @@ @[n])
                                        ELSE SetKey(@, n, attr)]

\* MultiDiGraph.new_edge_key(u, v): the number of edges u->v already there
new_edge_key(g, u, v) ==
  Cardinality({k \in DOMAIN g.edges : g.edges[k].u = u /\ g.edges[k].v = v})

\* DiGraph.add_edge: an edge u->v already there is updated, none is added
add_edge_single(g, u, v, attr) ==
  LET g1 == IF u \in DOMAIN g.nodes THEN g ELSE add_node(g, u, EmptyMap)
      g2 == IF v \in DOMAIN g1.nodes THEN g1 ELSE add_node(g1, v, EmptyMap)
      old == {k \in DOMAIN g.edges : g.edges[k].u = u /\ g.edges[k].v = v}
  IN IF old = {}
     THEN [g2 EXCEPT !.edges = Append(@, [u |-> u, v |-> v, key |-> 0, data |-> attr])]
     ELSE [g2 EXCEPT !.edges =
             [k \in DOMAIN @ |-> IF k \in old THEN [@[k] EXCEPT !.data = attr @@ @]
                                               ELSE @[k]]]

\* an add_edge that does not create the endpoints it misses
add_edge_no_implicit_nodes(g, u, v, attr) ==
  [g EXCEPT !.edges =
     Append(@, [u |-> u, v |-> v, key |-> new_edge_key(g, u, v), data |-> attr])]

\* MultiDiGraph.add_edge(u, v, **attr): endpoints are created when missing
add_edge(g, u, v, attr) ==
  LET g1 == IF u \in DOMAIN g.nodes THEN g ELSE add_node(g, u, EmptyMap)
      g2 == IF v \in DOMAIN g1.nodes THEN g1 ELSE add_node(g1, v, EmptyMap)
  IN [g2 EXCEPT !.edges =
        Append(@, [u |-> u, v |-> v, key |-> new_edge_key(g, u, v), data |-> attr])]

\* G.add_edges_from(ebunch, **attr) from pair j on
RECURSIVE add_edges_scan(_, _, _, _)
add_edges_scan(g, ebunch, attr, j) ==
  IF j > Len(ebunch) THEN g
  ELSE add_edges_scan(add_edge(g, ebunch[j][1], ebunch[j][2], attr), ebunch, attr, j + 1)

add_edges_from(g, ebunch, attr) == add_edges_scan(g, ebunch, attr, 1)

\* a zip that pairs a single node with itself
zip_pairs_pads_single(path_nodes) ==
  IF Len(path_nodes) = 1 THEN << <<path_nodes[1], path_nodes[1]>> >>
  ELSE [j \in 1..(IF Len(path_nodes) = 0 THEN 0 ELSE Len(path_nodes) - 1)
          |-> <<path_nodes[j], path_nodes[j + 1]>>]

\* list(zip(path_nodes[:-1], path_nodes[1:]))
zip_pairs(path_nodes) ==
  [j \in 1..(IF Len(path_nodes) = 0 THEN 0 ELSE Len(path_nodes) - 1)
     |-> <<path_nodes[j], path_nodes[j + 1]>>]

\* list(reversed(xs))
reversed(xs) == [j \in 1..Len(xs) |-> xs[Len(xs) + 1 - j]]

\* ------------------------------------------------------------------ edges of a path
\* _add_path with the opposite run taken over the reversed edge list
_add_path_opposite_reversed(g, data, one_way) ==
  LET path_nodes == data.nodes
      data1 == DelKey(data, "nodes")
      data2 == IF ~all_oneway THEN SetKey(data1, "oneway", PyBool(one_way)) ELSE data1
      path_edges == zip_pairs(path_nodes)
      g1 == add_edges_from(g, path_edges, data2)
      path_edges_opposite_direction ==
        [j \in DOMAIN path_edges |->
           <<path_edges[Len(path_edges) + 1 - j][2], path_edges[Len(path_edges) + 1 - j][1]>>]
  IN [G |-> IF ~one_way THEN add_edges_from(g1, path_edges_opposite_direction, data2)
                         ELSE g1,
      data |-> data2]

\* _add_path that sets the oneway attribute whatever settings.all_oneway is
_add_path_always_stamps(g, data, one_way) ==
  LET path_nodes == data.nodes
      data1 == DelKey(data, "nodes")
      data2 == SetKey(data1, "oneway", PyBool(one_way))
      path_edges == zip_pairs(path_nodes)
      g1 == add_edges_from(g, path_edges, data2)
      path_edges_opposite_direction ==
        [j \in DOMAIN path_edges |-> <<path_edges[j][2], path_edges[j][1]>>]
  IN [G |-> IF ~one_way THEN add_edges_from(g1, path_edges_opposite_direction, data2)
                         ELSE g1,
      data |-> data2]

\* _add_path(G, data, one_way): the graph and the path dict it leaves behind
_add_path(g, data, one_way) ==
  LET path_nodes == data.nodes
      data1 == DelKey(data, "nodes")
      data2 == IF ~all_oneway THEN SetKey(data1, "oneway", PyBool(one_way)) ELSE data1
      path_edges == zip_pairs(path_nodes)
      g1 == add_edges_from(g, path_edges, data2)
      path_edges_opposite_direction ==
        [j \in DOMAIN path_edges |-> <<path_edges[j][2], path_edges[j][1]>>]
  IN [G |-> IF ~one_way THEN add_edges_from(g1, path_edges_opposite_direction, data2)
                         ELSE g1,
      data |-> data2]

\* the values OSM uses in its 'oneway' tag to denote True
osm_oneway_values == {"yes", "true", "1", "-1", "T", "F"}

\* the loop body reversing the nodes for '-1' only
add_paths_body_T_not_reversed(g, data) ==
  IF all_oneway = TRUE
  THEN _add_path(g, data, TRUE)
  ELSE IF ("oneway" \in DOMAIN data /\ data.oneway \in osm_oneway_values) /\ ~bidirectional
  THEN _add_path(g,
                 IF data.oneway = "-1"
                 THEN SetKey(data, "nodes", reversed(data.nodes))
                 ELSE data,
                 TRUE)
  ELSE IF ("junction" \in DOMAIN data /\ data.junction = "roundabout") /\ ~bidirectional
  THEN _add_path(g, data, TRUE)
  ELSE _add_path(g, data, FALSE)

\* the loop body testing the oneway tag before settings.all_oneway
add_paths_body_tag_before_all_oneway(g, data) ==
  IF ("oneway" \in DOMAIN data /\ data.oneway \in osm_oneway_values) /\ ~bidirectional
  THEN _add_path(g,
                 IF data.oneway = "-1" \/ data.oneway = "T"
                 THEN SetKey(data, "nodes", reversed(data.nodes))
                 ELSE data,
                 TRUE)
  ELSE IF all_oneway = TRUE
  THEN _add_path(g, data, TRUE)
  ELSE IF ("junction" \in DOMAIN data /\ data.junction = "roundabout") /\ ~bidirectional
  THEN _add_path(g, data, TRUE)
  ELSE _add_path(g, data, FALSE)

\* the loop body testing the junction before the oneway tag
add_paths_body_junction_first(g, data) ==
  IF all_oneway = TRUE
  THEN _add_path(g, data, TRUE)
  ELSE IF ("junction" \in DOMAIN data /\ data.junction = "roundabout") /\ ~bidirectional
  THEN _add_path(g, data, TRUE)
  ELSE IF ("oneway" \in DOMAIN data /\ data.oneway \in osm_oneway_values) /\ ~bidirectional
  THEN _add_path(g,
                 IF data.oneway = "-1" \/ data.oneway = "T"
                 THEN SetKey(data, "nodes", reversed(data.nodes))
                 ELSE data,
                 TRUE)
  ELSE _add_path(g, data, FALSE)

\* the loop body whose roundabout test forgets the bidirectional argument
add_paths_body_roundabout_ignores_bidirectional(g, data) ==
  IF all_oneway = TRUE
  THEN _add_path(g, data, TRUE)
  ELSE IF ("oneway" \in DOMAIN data /\ data.oneway \in osm_oneway_values) /\ ~bidirectional
  THEN _add_path(g,
                 IF data.oneway = "-1" \/ data.oneway = "T"
                 THEN SetKey(data, "nodes", reversed(data.nodes))
                 ELSE data,
                 TRUE)
  ELSE IF ("junction" \in DOMAIN data /\ data.junction = "roundabout")
  THEN _add_path(g, data, TRUE)
  ELSE _add_path(g, data, FALSE)

\* one iteration of _add_paths' loop, for the path dict data
add_paths_body(g, data) ==
  IF all_oneway = TRUE
  THEN _add_path(g, data, TRUE)
  ELSE IF ("oneway" \in DOMAIN data /\ data.oneway \in osm_oneway_values) /\ ~bidirectional
  THEN _add_path(g,
                 IF data.oneway = "-1" \/ data.oneway = "T"
                 THEN SetKey(data, "nodes", reversed(data.nodes))
                 ELSE data,
                 TRUE)
  ELSE IF ("junction" \in DOMAIN data /\ data.junction = "roundabout") /\ ~bidirectional
  THEN _add_path(g, data, TRUE)
  ELSE _add_path(g, data, FALSE)

\* ------------------------------------------------------------------ _OSMContentHandler
\* None, where the model has a reference into heap
None == 0

\* An attribute value that the handler parses as a number is written as the
\* sequence of its characters; the other strings are written as they are.
DigitChar == <<"0", "1", "2", "3", "4", "5", "6", "7", "8", "9">>

\* the value of a digit character
DigitValue(c) == (CHOOSE d \in DOMAIN DigitChar : DigitChar[d] = c) - 1

\* the number that the decimal digits of s from character j on add to acc
RECURSIVE digits_scan(_, _, _)
digits_scan(s, j, acc) ==
  IF j > Len(s) THEN acc
  ELSE digits_scan(s, j + 1, acc * 10 + DigitValue(s[j]))

\* int(s) of a string of decimal digits
int(s) == digits_scan(s, 1, 0)

\* float(s) of a string of decimal digits: the float of that whole number,
\* which Python compares equal to the int
float(s) == digits_scan(s, 1, 0)

\* _OSMContentHandler(): __init__
handler_init == [_element |-> None, object |-> [elements |-> << >>]]

\* no handler has been constructed
NoHandler == [_element |-> None, object |-> EmptyMap]

\* a startElement whose nd branch puts the reference first: nodes.insert(0, ref)
startElement_prepends_nd(self, mem, name, attrs) ==
  IF name = "osm"
  THEN [self |-> [self EXCEPT !.object =
                    [a \in {"version", "generator"} \cap DOMAIN attrs |-> attrs[a]] @@ @],
        mem |-> mem, raised |-> FALSE]
  ELSE IF name \in {"node", "way"}
  THEN LET d0 == attrs @@ ("type" :> name) @@ ("tags" :> EmptyMap) @@ ("nodes" :> << >>)
           d1 == [a \in {"lat", "lon"} \cap DOMAIN attrs |-> float(attrs[a])] @@ d0
           d2 == [a \in {"id", "uid", "version", "changeset"} \cap DOMAIN attrs
                    |-> int(attrs[a])] @@ d1
       IN [self |-> [self EXCEPT !._element = Len(mem) + 1],
           mem |-> Append(mem, d2), raised |-> FALSE]
  ELSE IF name = "tag"
  THEN IF self._element = None
       THEN [self |-> self, mem |-> mem, raised |-> TRUE]
       ELSE [self |-> self,
             mem |-> [mem EXCEPT ![self._element]["tags"] = SetKey(@, attrs.k, attrs.v)],
             raised |-> FALSE]
  ELSE IF name = "nd"
  THEN IF self._element = None
       THEN [self |-> self, mem |-> mem, raised |-> TRUE]
       ELSE [self |-> self,
             mem |-> [mem EXCEPT ![self._element]["nodes"] = <<int(attrs.ref)>> \o @],
             raised |-> FALSE]
  ELSE [self |-> self, mem |-> mem, raised |-> FALSE]

\* _OSMContentHandler.startElement(name, attrs) on the handler self and the
\* dicts mem: the handler and the dicts afterwards, or raised when subscripting
\* self._element fails with TypeError because it is None
startElement(self, mem, name, attrs) ==
  IF name = "osm"
  THEN [self |-> [self EXCEPT !.object =
                    [a \in {"version", "generator"} \cap DOMAIN attrs |-> attrs[a]] @@ @],
        mem |-> mem, raised |-> FALSE]
  ELSE IF name \in {"node", "way"}
  THEN LET d0 == attrs @@ ("type" :> name) @@ ("tags" :> EmptyMap) @@ ("nodes" :> << >>)
           d1 == [a \in {"lat", "lon"} \cap DOMAIN attrs |-> float(attrs[a])] @@ d0
           d2 == [a \in {"id", "uid", "version", "changeset"} \cap DOMAIN attrs
                    |-> int(attrs[a])] @@ d1
       IN [self |-> [self EXCEPT !._element = Len(mem) + 1],
           mem |-> Append(mem, d2), raised |-> FALSE]
  ELSE IF name = "tag"
  THEN IF self._element = None
       THEN [self |-> self, mem |-> mem, raised |-> TRUE]
       ELSE [self |-> self,
             mem |-> [mem EXCEPT ![self._element]["tags"] = SetKey(@, attrs.k, attrs.v)],
             raised |-> FALSE]
  ELSE IF name = "nd"
  THEN IF self._element = None
       THEN [self |-> self, mem |-> mem, raised |-> TRUE]
       ELSE [self |-> self,
             mem |-> [mem EXCEPT ![self._element]["nodes"] = Append(@, int(attrs.ref))],
             raised |-> FALSE]
  ELSE [self |-> self, mem |-> mem, raised |-> FALSE]

\* an endElement that appends at the end of a relation as well
endElement_emits_relations(self, name) ==
  IF name \in {"node", "way", "relation"}
  THEN [self EXCEPT !.object["elements"] = Append(@, self._element)]
  ELSE self

\* _OSMContentHandler.endElement(name): the reference self._element is
\* appended, and self._element is left as it is
endElement(self, name) ==
  IF name \in {"node", "way"}
  THEN [self EXCEPT !.object["elements"] = Append(@, self._element)]
  ELSE self

\* the value of handler.object: each reference of its list followed into mem
value_of(object, mem) ==
  [object EXCEPT !["elements"] = [j \in DOMAIN @ |-> mem[@[j]]]]

\* no file is read: the batches come from the caller
NoFile == [osm |-> EmptyMap, elements |-> << >>, malformed |-> FALSE, parsable |-> 0]

\* the start and end events of an element of the document and of its children
child_events(children) ==
  [j \in 1..(2 * Len(children)) |->
     IF j % 2 = 1
     THEN [kind |-> "start", name |-> children[(j + 1) \div 2].name,
           attrs |-> children[(j + 1) \div 2].attrs]
     ELSE [kind |-> "end", name |-> children[j \div 2].name, attrs |-> EmptyMap]]

element_events(x) ==
  <<[kind |-> "start", name |-> x.name, attrs |-> x.attrs]>>
    \o child_events(x.children)
    \o <<[kind |-> "end", name |-> x.name, attrs |-> EmptyMap]>>

RECURSIVE elements_events(_, _)
elements_events(xs, j) ==
  IF j > Len(xs) THEN << >> ELSE element_events(xs[j]) \o elements_events(xs, j + 1)

\* the events of the whole document, in document order
document_events(f) ==
  <<[kind |-> "start", name |-> "osm", attrs |-> f.osm]>>
    \o elements_events(f.elements, 1)
    \o <<[kind |-> "end", name |-> "osm", attrs |-> EmptyMap]>>

\* the events that xml.sax.parse delivers: those before the byte stream
\* becomes unparsable
sax_events(f) == SubSeq(document_events(f), 1, f.parsable)

\* a parser that takes any byte stream for a document
parse_never_raises(f, n) == FALSE

\* xml.sax.parse raises SAXParseException once n events are delivered
parse_raises(f, n) == f.malformed /\ n = f.parsable

\* ------------------------------------------------------------------ _create_graph
\* elements.extend(response_json['elements']) over the batches from j on
RECURSIVE extend_scan(_, _, _)
extend_scan(elements, jsons, j) ==
  IF j > Len(jsons) THEN elements
  ELSE extend_scan(elements \o jsons[j].elements, jsons, j + 1)

all_elements(jsons) == extend_scan(<< >>, jsons, 1)

\* for node, data in nodes.items(): G.add_node(node, **data), from key j on
RECURSIVE add_nodes_scan(_, _, _)
add_nodes_scan(g, d, j) ==
  IF j > Len(d.keys) THEN g
  ELSE add_nodes_scan(add_node(g, d.keys[j], d.val[d.keys[j]]), d, j + 1)

\* a test that looks at the number of batches, not of elements
no_elements_counts_batches(jsons) == Len(jsons) < 1

\* len(elements) < 1
no_elements(jsons) == Len(all_elements(jsons)) < 1

\* the loop over response_jsons that merges each batch's nodes and paths,
\* from batch j on
RECURSIVE merge_scan(_, _, _)
merge_scan(jsons, j, acc) ==
  IF j > Len(jsons) THEN acc
  ELSE LET temp == _parse_osm_nodes_paths(jsons[j]) IN
         merge_scan(jsons, j + 1,
                    [nodes |-> dict_merge(acc.nodes, temp.nodes),
                     paths |-> dict_merge(acc.paths, temp.paths)])

\* the nodes and paths that _create_graph extracts from the batches
merged_maps(jsons) == merge_scan(jsons, 1, [nodes |-> EmptyDict, paths |-> EmptyDict])

\* _add_paths: for data in paths.values(), from path j on
RECURSIVE add_paths_scan(_, _, _)
add_paths_scan(g, d, j) ==
  IF j > Len(d.keys) THEN g
  ELSE add_paths_scan(add_paths_body(g, d.val[d.keys[j]]).G, d, j + 1)

\* the graph that _create_graph builds from batches with an element
_create_graph(jsons) ==
  add_paths_scan(add_nodes_scan(NewGraph, merged_maps(jsons).nodes, 1),
                 merged_maps(jsons).paths, 1)

\* if len(elements) < 1: raise EmptyOverpassResponse
RaiseEmpty ==
  /\ pc = "start"
  /\ no_elements(response_jsons)
  /\ pc' = "raised"
  /\ UNCHANGED <<response_jsons, bidirectional, all_oneway, useful_tags_node,
                 useful_tags_path, G, nodes, paths, b, i,
                 file, ev, handler, heap, workers>>

\* otherwise the MultiDiGraph is created and the parse loop begins
CreateGraph ==
  /\ pc = "start"
  /\ ~no_elements(response_jsons)
  /\ G' = NewGraph
  /\ nodes' = EmptyDict
  /\ paths' = EmptyDict
  /\ b' = 1
  /\ pc' = "parse"
  /\ UNCHANGED <<response_jsons, bidirectional, all_oneway, useful_tags_node,
                 useful_tags_path, i,
                 file, ev, handler, heap, workers>>

\* one iteration of: for osm_data in response_jsons
ParseBatch ==
  /\ pc = "parse"
  /\ b <= Len(response_jsons)
  /\ LET temp == _parse_osm_nodes_paths(response_jsons[b]) IN
       /\ nodes' = dict_merge(nodes, temp.nodes)
       /\ paths' = dict_merge(paths, temp.paths)
  /\ b' = b + 1
  /\ pc' = IF b = Len(response_jsons) THEN "add_nodes" ELSE "parse"
  /\ UNCHANGED <<response_jsons, bidirectional, all_oneway, useful_tags_node,
                 useful_tags_path, G, i,
                 file, ev, handler, heap, workers>>

\* the loop that adds each osm node to the graph
AddNodes ==
  /\ pc = "add_nodes"
  /\ G' = add_nodes_scan(G, nodes, 1)
  /\ i' = 1
  /\ pc' = IF Len(paths.keys) = 0 THEN "done" ELSE "add_paths"
  /\ UNCHANGED <<response_jsons, bidirectional, all_oneway, useful_tags_node,
                 useful_tags_path, nodes, paths, b,
                 file, ev, handler, heap, workers>>

\* an iteration whose data is the raw way element itself, not a dict made by
\* _convert_path: del data['nodes'] then reaches the batches
AddPath_on_raw_elements ==
  /\ pc = "add_paths"
  /\ i <= Len(paths.keys)
  /\ LET r == add_paths_body(G, paths.val[paths.keys[i]]) IN
       /\ G' = r.G
       /\ paths' = [paths EXCEPT !.val = SetKey(@, paths.keys[i], r.data)]
  /\ response_jsons' =
       [m \in DOMAIN response_jsons |->
          [elements |->
             [n \in DOMAIN response_jsons[m].elements |->
                IF /\ response_jsons[m].elements[n].type = "way"
                   /\ response_jsons[m].elements[n].id = paths.keys[i]
                THEN DelKey(response_jsons[m].elements[n], "nodes")
                ELSE response_jsons[m].elements[n]]]]
  /\ i' = i + 1
  /\ pc' = IF i = Len(paths.keys) THEN "done" ELSE "add_paths"
  /\ UNCHANGED <<bidirectional, all_oneway, useful_tags_node,
                 useful_tags_path, nodes, b,
                 file, ev, handler, heap, workers>>

\* one iteration of: for data in paths.values()
AddPath ==
  /\ pc = "add_paths"
  /\ i <= Len(paths.keys)
  /\ LET r == add_paths_body(G, paths.val[paths.keys[i]]) IN
       /\ G' = r.G
       /\ paths' = [paths EXCEPT !.val = SetKey(@, paths.keys[i], r.data)]
  /\ i' = i + 1
  /\ pc' = IF i = Len(paths.keys) THEN "done" ELSE "add_paths"
  /\ UNCHANGED <<response_jsons, bidirectional, all_oneway, useful_tags_node,
                 useful_tags_path, nodes, b,
                 file, ev, handler, heap, workers>>

\* ------------------------------------------------------------------ graph_from_file
\* _overpass_json_from_file: handler = _OSMContentHandler()
NewHandler ==
  /\ pc = "open"
  /\ handler' = handler_init
  /\ heap' = << >>
  /\ ev' = 1
  /\ pc' = "sax"
  /\ UNCHANGED <<response_jsons, bidirectional, all_oneway, useful_tags_node,
                 useful_tags_path, G, nodes, paths, b, i, file, workers>>

\* xml.sax.parse delivers a start event; a TypeError of the handler leaves
\* xml.sax.parse, _overpass_json_from_file and graph_from_file
StartElement ==
  /\ pc = "sax"
  /\ ~parse_raises(file, ev - 1)
  /\ ev <= Len(sax_events(file))
  /\ sax_events(file)[ev].kind = "start"
  /\ LET r == startElement(handler, heap, sax_events(file)[ev].name,
                            sax_events(file)[ev].attrs) IN
       /\ handler' = r.self
       /\ heap' = r.mem
       /\ pc' = IF r.raised THEN "type_raised" ELSE "sax"
       /\ ev' = IF r.raised THEN ev ELSE ev + 1
  /\ UNCHANGED <<response_jsons, bidirectional, all_oneway, useful_tags_node,
                 useful_tags_path, G, nodes, paths, b, i, file, workers>>

\* xml.sax.parse delivers an end event
EndElement ==
  /\ pc = "sax"
  /\ ~parse_raises(file, ev - 1)
  /\ ev <= Len(sax_events(file))
  /\ sax_events(file)[ev].kind = "end"
  /\ handler' = endElement(handler, sax_events(file)[ev].name)
  /\ ev' = ev + 1
  /\ UNCHANGED <<response_jsons, bidirectional, all_oneway, useful_tags_node,
                 useful_tags_path, pc, G, nodes, paths, b, i, file, heap, workers>>

\* the byte stream is unparsable from here: SAXParseException leaves
\* xml.sax.parse, _overpass_json_from_file and graph_from_file
RaiseSAXParseException ==
  /\ pc = "sax"
  /\ parse_raises(file, ev - 1)
  /\ pc' = "xml_raised"
  /\ UNCHANGED <<response_jsons, bidirectional, all_oneway, useful_tags_node,
                 useful_tags_path, G, nodes, paths, b, i, file, ev, handler, heap, workers>>

\* return handler.object, and response_jsons = [that] in graph_from_file
ReturnObject ==
  /\ pc = "sax"
  /\ ~parse_raises(file, ev - 1)
  /\ ev > Len(sax_events(file))
  /\ response_jsons' = << value_of(handler.object, heap) >>
  /\ pc' = "start"
  /\ UNCHANGED <<bidirectional, all_oneway, useful_tags_node,
                 useful_tags_path, G, nodes, paths, b, i, file, ev, handler, heap, workers>>

\* ------------------------------------------------------------------ inputs
\* an Overpass element; 'tags' is present only when there are tags
WithTags(element, tags) ==
  IF tags = EmptyMap THEN element ELSE ("tags" :> tags) @@ element

NodeElement(id, lat, lon, tags) ==
  WithTags([type |-> "node", id |-> id, lat |-> lat, lon |-> lon], tags)

WayElement(id, nds, tags) ==
  WithTags([type |-> "way", id |-> id, nodes |-> nds], tags)

RelationElement(id) == [type |-> "relation", id |-> id]

OptionalTag(k, values) == {EmptyMap} \cup {(k :> v) : v \in values}

\* the tag values of the direction inputs
OnewayTokens == {"yes", "true", "1", "-1", "T", "F", "no", "reversible"}
JunctionTokens == {"roundabout", "circular"}

\* the assembly has not begun on the given arguments and settings
Begin(jsons, bd, ao, utn, utp) ==
  /\ response_jsons = jsons
  /\ bidirectional = bd
  /\ all_oneway = ao
  /\ useful_tags_node = utn
  /\ useful_tags_path = utp
  /\ pc = "start"
  /\ G = NoGraph
  /\ nodes = EmptyDict
  /\ paths = EmptyDict
  /\ b = 1
  /\ i = 1
  /\ file = NoFile
  /\ ev = 1
  /\ handler = NoHandler
  /\ heap = << >>
  /\ workers = << >>

\* direction inputs: one way with every combination of oneway and junction
InitDir ==
  \E k \in 0..DirLen : \E nds \in [1..k -> 1..MaxNode] :
    \E ow \in OptionalTag("oneway", OnewayTokens) :
      \E jn \in OptionalTag("junction", JunctionTokens) :
        \E bd \in BOOLEAN, ao \in BOOLEAN, utp \in SUBSET {"oneway", "junction"} :
          Begin(<< [elements |-> <<WayElement(10, nds, ow @@ jn)>>] >>, bd, ao, {}, utp)

\* reduction inputs: one untagged way with a longer node-reference list
InitReduce ==
  \E k \in 0..MaxLen : \E nds \in [1..k -> 1..MaxNode] :
    Begin(<< [elements |-> <<WayElement(10, nds, EmptyMap)>>] >>, FALSE, FALSE, {}, {})

\* merge inputs: a few elements with clashing ids, cut into batches
SmallNodes ==
  {NodeElement(id, 0, 5, ("highway" :> "crossing")) : id \in {1, 2}}
    \cup {NodeElement(id, 1, 5, EmptyMap) : id \in {1, 2}}

SmallWays ==
  {WayElement(id, nds, tags) :
     id \in {10, 11}, nds \in {<<1, 2>>, <<2, 1, 1>>},
     tags \in {EmptyMap, ("oneway" :> "yes") @@ ("name" :> "a")}}

SmallElements == SmallNodes \cup SmallWays \cup {RelationElement(20)}

\* the places where a list of n elements is cut into k batches
Cuts(n, k) ==
  {c \in [1..(k - 1) -> 0..n] : \A m \in 1..(k - 2) : c[m] <= c[m + 1]}

\* the batches that elems is cut into at cuts
Split(elems, cuts) ==
  [m \in 1..(Len(cuts) + 1) |->
     [elements |-> SubSeq(elems,
                          IF m = 1 THEN 1 ELSE cuts[m - 1] + 1,
                          IF m = Len(cuts) + 1 THEN Len(elems) ELSE cuts[m])]]

InitMerge ==
  \E ao \in BOOLEAN :
    \/ Begin(<< >>, FALSE, ao, {"highway"}, {"oneway", "name"})
    \/ \E n \in 0..MaxElems : \E elems \in [1..n -> SmallElements] :
         \E k \in 1..MaxBatches : \E cuts \in Cuts(n, k) :
           Begin(Split(elems, cuts), FALSE, ao, {"highway"}, {"oneway", "name"})

\* short inputs: a way that reduces to fewer than two references, before or
\* after a way over two nodes, in every direction mode
ShortRefs == {<< >>, <<1>>, <<2, 2>>, <<3, 3, 3>>}

InitShort ==
  \E nds \in ShortRefs : \E first \in BOOLEAN :
    \E ow \in OptionalTag("oneway", OnewayTokens) :
      \E jn \in OptionalTag("junction", {"roundabout"}) :
        \E bd \in BOOLEAN, ao \in BOOLEAN :
          LET short == WayElement(10, nds, ow @@ jn)
              other == WayElement(11, <<1, 2>>, ow @@ jn)
          IN Begin(<< [elements |-> IF first THEN <<short, other>> ELSE <<other, short>>] >>,
                   bd, ao, {}, {"oneway", "junction"})

Init == InitDir \/ InitReduce \/ InitMerge \/ InitShort

Next == RaiseEmpty \/ CreateGraph \/ ParseBatch \/ AddNodes \/ AddPath

Spec == Init /\ [][Next]_vars

\* ------------------------------------------------------------------ file inputs
\* the decimal digits of n
RECURSIVE Decimal(_)
Decimal(n) ==
  IF n < 10 THEN <<DigitChar[n + 1]>>
  ELSE Append(Decimal(n \div 10), DigitChar[(n % 10) + 1])

\* a numeral of n as a document writes it, with pad leading zeros
RECURSIVE Numeral(_, _)
Numeral(n, pad) == IF pad = 0 THEN Decimal(n) ELSE <<"0">> \o Numeral(n, pad - 1)

\* <tag k=".." v=".."/>, <nd ref=".."/> and <member/> children
XmlTag(key, v) == [name |-> "tag", attrs |-> [k |-> key, v |-> v]]
XmlNd(ref) == [name |-> "nd", ref |-> ref, attrs |-> [ref |-> Numeral(ref, 0)]]
XmlMember == [name |-> "member", attrs |-> EmptyMap]

\* <node id lat lon ..>, <way id ..> and <relation id> elements; the numbers
\* are kept beside the attributes that write them
XmlNode(id, pad, lat, lon, more, children) ==
  [name |-> "node", id |-> id, lat |-> lat, lon |-> lon, children |-> children,
   attrs |-> more @@ [id |-> Numeral(id, pad), lat |-> Numeral(lat, 0),
                      lon |-> Numeral(lon, 0)]]

XmlWay(id, pad, more, children) ==
  [name |-> "way", id |-> id, children |-> children,
   attrs |-> more @@ [id |-> Numeral(id, pad)]]

XmlRelation(id, children) ==
  [name |-> "relation", id |-> id, children |-> children,
   attrs |-> [id |-> Numeral(id, 0)]]

XmlNodes ==
  { XmlNode(1, 0, 0, 5, EmptyMap, << >>),
    XmlNode(1, 1, 12, 5, [user |-> "bob", version |-> Numeral(3, 0)],
            <<XmlTag("highway", "crossing"), XmlTag("highway", "stop")>>),
    XmlNode(2, 0, 0, 5, EmptyMap, <<XmlTag("highway", "crossing")>>) }

XmlWays ==
  { XmlWay(10, 0, EmptyMap, <<XmlNd(1), XmlNd(2)>>),
    XmlWay(10, 1, [visible |-> "true"],
           <<XmlNd(2), XmlTag("oneway", "yes"), XmlNd(1), XmlNd(1),
             XmlTag("name", "a")>>) }

XmlRelations ==
  { XmlRelation(20, <<XmlMember>>),
    XmlRelation(20, <<XmlMember, XmlTag("highway", "stop")>>),
    XmlRelation(20, <<XmlTag("name", "b")>>) }

XmlElements == XmlNodes \cup XmlWays \cup XmlRelations

\* graph_from_file(filename) is called on a document that is well-formed, or
\* unparsable after some of its events
InitFile ==
  \E n \in 0..MaxDocElems : \E xs \in [1..n -> XmlElements] :
    \E bad \in BOOLEAN :
      LET f == [osm |-> [version |-> "0.6", generator |-> "JOSM", upload |-> "false"],
                elements |-> xs, malformed |-> bad, parsable |-> 0]
      IN \E cut \in 0..Len(document_events(f)) :
           /\ ~bad => cut = Len(document_events(f))
           /\ file = [f EXCEPT !.parsable = cut]
           /\ response_jsons = << >>
           /\ bidirectional = FALSE
           /\ all_oneway = FALSE
           /\ useful_tags_node = {"highway"}
           /\ useful_tags_path = {"oneway", "name"}
           /\ pc = "open"
           /\ G = NoGraph
           /\ nodes = EmptyDict
           /\ paths = EmptyDict
           /\ b = 1
           /\ i = 1
           /\ ev = 1
           /\ handler = NoHandler
           /\ heap = << >>
           /\ workers = << >>

NextFile ==
  \/ NewHandler \/ StartElement \/ EndElement \/ RaiseSAXParseException
  \/ ReturnObject
  \/ RaiseEmpty \/ CreateGraph \/ ParseBatch \/ AddNodes \/ AddPath

SpecFile == InitFile /\ [][NextFile]_vars

\* ------------------------------------------------------------------ batches classified side by side
\* one iteration of the loop of _parse_osm_nodes_paths on the dicts acc
classify_element(acc, element) == parse_scan(<<element>>, 1, acc)

\* a classification that has not begun
NewWorker == [pos |-> 1, nodes |-> EmptyDict, paths |-> EmptyDict, merged |-> FALSE]

\* the classification of batch j has returned
Returned(ws, jsons, j) == ws[j].pos > Len(jsons[j].elements)

\* the maps of batch j may be merged: it has returned, and the batches before
\* it in the caller's order are merged
may_merge(ws, jsons, j) ==
  /\ Returned(ws, jsons, j)
  /\ ~ws[j].merged
  /\ \A m \in 1..(j - 1) : ws[m].merged

\* some classification handles its next element, whatever the others do
ClassifyElement ==
  /\ pc = "classify"
  /\ \E j \in DOMAIN workers :
       /\ ~Returned(workers, response_jsons, j)
       /\ LET acc == classify_element([nodes |-> workers[j].nodes,
                                        paths |-> workers[j].paths],
                                       response_jsons[j].elements[workers[j].pos])
          IN workers' = [workers EXCEPT ![j] =
                           [pos |-> @.pos + 1, nodes |-> acc.nodes,
                            paths |-> acc.paths, merged |-> FALSE]]
  /\ UNCHANGED <<response_jsons, bidirectional, all_oneway, useful_tags_node,
                 useful_tags_path, pc, G, nodes, paths, b, i, file, ev, handler, heap>>

\* the maps of the next batch in the caller's order are merged
MergeBatch ==
  /\ pc = "classify"
  /\ \E j \in DOMAIN workers :
       /\ may_merge(workers, response_jsons, j)
       /\ nodes' = dict_merge(nodes, workers[j].nodes)
       /\ paths' = dict_merge(paths, workers[j].paths)
       /\ workers' = [workers EXCEPT ![j].merged = TRUE]
       /\ b' = b + 1
       /\ pc' = IF b = Len(response_jsons) THEN "merged" ELSE "classify"
  /\ UNCHANGED <<response_jsons, bidirectional, all_oneway, useful_tags_node,
                 useful_tags_path, G, i, file, ev, handler, heap>>

\* elements whose ids clash: two definitions of node 1 and of way 10
ClashElements ==
  { NodeElement(1, 0, 5, ("highway" :> "crossing")),
    NodeElement(1, 1, 5, EmptyMap),
    WayElement(10, <<1, 2>>, ("oneway" :> "yes") @@ ("name" :> "a")),
    WayElement(10, <<2, 1, 1>>, EmptyMap),
    RelationElement(20) }

\* a few clashing elements cut into batches, a classification begun for each
InitPar ==
  \E n \in 0..(MaxElems + 1) : \E elems \in [1..n -> ClashElements] :
    \E k \in 1..MaxBatches : \E cuts \in Cuts(n, k) :
      /\ response_jsons = Split(elems, cuts)
      /\ bidirectional = FALSE
      /\ all_oneway = FALSE
      /\ useful_tags_node = {"highway"}
      /\ useful_tags_path = {"oneway", "name"}
      /\ pc = "classify"
      /\ G = NoGraph
      /\ nodes = EmptyDict
      /\ paths = EmptyDict
      /\ b = 1
      /\ i = 1
      /\ file = NoFile
      /\ ev = 1
      /\ handler = NoHandler
      /\ heap = << >>
      /\ workers = [j \in 1..k |-> NewWorker]

NextPar == ClassifyElement \/ MergeBatch

SpecPar == InitPar /\ [][NextPar]_vars

\* ------------------------------------------------------------------ properties
\* the path dict the next iteration of _add_paths' loop resolves
CurrentPath == paths.val[paths.keys[i]]

\* the edges the step has appended to the graph
NewEdges == SubSeq(G'.edges, Len(G.edges) + 1, Len(G'.edges))

\* the (u, v) pairs of a list of edges
Pairs(es) == [j \in DOMAIN es |-> <<es[j].u, es[j].v>>]

\* one pair per consecutive node pair of ns
ForwardRun(ns) == [j \in 1..(Len(ns) - 1) |-> <<ns[j], ns[j + 1]>>]

\* every pair of a run turned around, in the same order
ReverseEach(run) == [j \in DOMAIN run |-> <<run[j][2], run[j][1]>>]

\* ns back to front
BackToFront(ns) == [j \in 1..Len(ns) |-> ns[Len(ns) + 1 - j]]

AffirmativeTokens == {"yes", "true", "1", "-1", "T", "F"}
AgainstTokens == {"-1", "T"}

HasAffirmativeOneway(d) == "oneway" \in DOMAIN d /\ d["oneway"] \in AffirmativeTokens
IsRoundabout(d) == "junction" \in DOMAIN d /\ d["junction"] = "roundabout"

AllOneway(es, value) ==
  \A j \in DOMAIN es : "oneway" \in DOMAIN es[j].data /\ es[j].data["oneway"] = value

\* an input of one batch holding the single way w
OneWayInput(w) == response_jsons = << [elements |-> <<w>>] >>

\* C1: with all_oneway off, a path whose oneway value is absent or not
\* affirmative and whose junction is not roundabout adds one edge per
\* consecutive node pair in stored order and then the reverse of each of those
\* edges in the same order, all with oneway = False.
C1_TwoRuns ==
  [][(pc = "add_paths" /\ i' = i + 1 /\ ~all_oneway
        /\ ~HasAffirmativeOneway(CurrentPath) /\ ~IsRoundabout(CurrentPath))
     => /\ Pairs(NewEdges) = ForwardRun(CurrentPath.nodes)
                               \o ReverseEach(ForwardRun(CurrentPath.nodes))
        /\ AllOneway(NewEdges, PyFalse)]_vars

C1_Witness ==
  /\ pc = "done" /\ ~all_oneway
  /\ OneWayInput(WayElement(10, <<1, 2, 3>>, EmptyMap))
  /\ Pairs(G.edges) = << <<1, 2>>, <<2, 3>>, <<2, 1>>, <<3, 2>> >>
  /\ AllOneway(G.edges, PyFalse)

\* C2: with all_oneway off and bidirectional false, a path whose oneway value
\* is yes, true, 1, -1, T or F adds exactly one run, with oneway = True on
\* every edge, over the reversed node order exactly when the value is -1 or T.
C2_OneRun ==
  [][(pc = "add_paths" /\ i' = i + 1 /\ ~all_oneway /\ ~bidirectional
        /\ HasAffirmativeOneway(CurrentPath))
     => /\ Pairs(NewEdges) =
             ForwardRun(IF CurrentPath["oneway"] \in AgainstTokens
                        THEN BackToFront(CurrentPath.nodes)
                        ELSE CurrentPath.nodes)
        /\ AllOneway(NewEdges, PyTrue)]_vars

C2_Witness ==
  /\ pc = "done" /\ ~all_oneway /\ ~bidirectional
  /\ "oneway" \in useful_tags_path
  /\ OneWayInput(WayElement(10, <<1, 2, 3>>, ("oneway" :> "-1")))
  /\ Pairs(G.edges) = << <<3, 2>>, <<2, 1>> >>
  /\ AllOneway(G.edges, PyTrue)

\* C3: with all_oneway on, every path adds exactly one run, over the stored
\* node order, whatever its tags and whatever bidirectional is.
C3_ForcedOneRun ==
  [][(pc = "add_paths" /\ i' = i + 1 /\ all_oneway)
     => Pairs(NewEdges) = ForwardRun(CurrentPath.nodes)]_vars

C3_Witness ==
  /\ pc = "done" /\ all_oneway /\ bidirectional
  /\ "oneway" \in useful_tags_path
  /\ OneWayInput(WayElement(10, <<1, 2, 3>>, ("oneway" :> "-1")))
  /\ Pairs(G.edges) = << <<1, 2>>, <<2, 3>> >>

\* the elements of all batches, in batch order
Elements == all_elements(response_jsons)

HasTag(element, k) == "tags" \in DOMAIN element /\ k \in DOMAIN element.tags

\* the tags of an element as written in the source data
RawTags(element) == IF "tags" \in DOMAIN element THEN element.tags ELSE EmptyMap

\* the last definition of way id in batch order
LastWay(id) ==
  LET defs == {j \in DOMAIN Elements : Elements[j].type = "way" /\ Elements[j].id = id}
  IN Elements[CHOOSE j \in defs : \A k \in defs : k <= j]

\* the edges of the graph that carry osmid id, in insertion order
EdgesOf(id) == SelectSeq(G.edges, LAMBDA e : e.data["osmid"] = id)

\* the ways whose path the resolver has already handled
Resolved == {paths.keys[j] : j \in 1..((IF pc = "done" THEN Len(paths.keys) + 1 ELSE i) - 1)}

\* C4 as stated: with all_oneway on, no edge carries an oneway attribute.
C4_NoOnewayAttribute ==
  all_oneway => \A j \in DOMAIN G.edges : "oneway" \notin DOMAIN G.edges[j].data

\* C4 as amended: with all_oneway on, no edge is stamped with a boolean
\* oneway; an edge carries an oneway attribute exactly when its way has an
\* oneway tag and 'oneway' is in useful_tags_path, and the attribute is then
\* the raw value of that tag.
C4_OnewayIsRawTag ==
  all_oneway =>
    \A j \in DOMAIN G.edges :
      LET data == G.edges[j].data
          w == LastWay(data["osmid"])
      IN /\ "oneway" \in DOMAIN data
              <=> (HasTag(w, "oneway") /\ "oneway" \in useful_tags_path)
         /\ "oneway" \in DOMAIN data => data["oneway"] = w.tags["oneway"]

C4_Witness ==
  /\ pc = "done" /\ all_oneway
  /\ "oneway" \in useful_tags_path
  /\ OneWayInput(WayElement(10, <<1, 2>>, ("oneway" :> "yes")))
  /\ Len(G.edges) = 1
  /\ G.edges[1].data["oneway"] = "yes"

\* the runs the decision table gives for tags d and node order ns
TableRuns(d, ns) ==
  IF all_oneway THEN ForwardRun(ns)
  ELSE IF HasAffirmativeOneway(d) /\ ~bidirectional
  THEN ForwardRun(IF d["oneway"] \in AgainstTokens THEN BackToFront(ns) ELSE ns)
  ELSE IF IsRoundabout(d) /\ ~bidirectional THEN ForwardRun(ns)
  ELSE ForwardRun(ns) \o ReverseEach(ForwardRun(ns))

\* C5: the decision for a way is taken on its raw oneway and junction tags,
\* whether or not 'oneway' and 'junction' are in useful_tags_path: the edges of
\* every resolved way are the runs the decision table gives for its raw tags.
C5_DecisionOnRawTags ==
  \A id \in Resolved :
    Pairs(EdgesOf(id)) = TableRuns(RawTags(LastWay(id)), groupby(LastWay(id).nodes))

\* C6: with all_oneway off and bidirectional false, a roundabout path adds
\* exactly one run with oneway = True, over the stored node order unless its
\* oneway value is -1 or T, in which case the oneway rule reverses it.
C6_Roundabout ==
  [][(pc = "add_paths" /\ i' = i + 1 /\ ~all_oneway /\ ~bidirectional
        /\ IsRoundabout(CurrentPath))
     => /\ Pairs(NewEdges) =
             ForwardRun(IF HasAffirmativeOneway(CurrentPath)
                           /\ CurrentPath["oneway"] \in AgainstTokens
                        THEN BackToFront(CurrentPath.nodes)
                        ELSE CurrentPath.nodes)
        /\ AllOneway(NewEdges, PyTrue)]_vars

C6_Witness ==
  /\ pc = "done" /\ ~all_oneway /\ ~bidirectional
  /\ useful_tags_path = {"oneway", "junction"}
  /\ OneWayInput(WayElement(10, <<1, 2, 3>>,
                             ("oneway" :> "no") @@ ("junction" :> "roundabout")))
  /\ Pairs(G.edges) = << <<1, 2>>, <<2, 3>> >>
  /\ AllOneway(G.edges, PyTrue)

\* the number of edges u->v of graph g
EdgeCount(g, u, v) ==
  Cardinality({j \in DOMAIN g.edges : g.edges[j].u = u /\ g.edges[j].v = v})

\* C7: with all_oneway off and bidirectional true, every path adds the run
\* over the stored node order and then the reverse of each of its edges, all
\* with oneway = False, so the graph has as many edges u->v as v->u.
C7_Bidirectional ==
  [][(pc = "add_paths" /\ i' = i + 1 /\ ~all_oneway /\ bidirectional)
     => /\ Pairs(NewEdges) = ForwardRun(CurrentPath.nodes)
                               \o ReverseEach(ForwardRun(CurrentPath.nodes))
        /\ AllOneway(NewEdges, PyFalse)
        /\ \A u, v \in 1..MaxNode : EdgeCount(G', u, v) = EdgeCount(G', v, u)]_vars

C7_Witness ==
  /\ pc = "done" /\ ~all_oneway /\ bidirectional
  /\ useful_tags_path = {"oneway", "junction"}
  /\ OneWayInput(WayElement(10, <<1, 2, 3>>,
                             ("oneway" :> "-1") @@ ("junction" :> "roundabout")))
  /\ Pairs(G.edges) = << <<1, 2>>, <<2, 3>>, <<2, 1>>, <<3, 2>> >>
  /\ AllOneway(G.edges, PyFalse)

\* the last definition of node id in batch order
LastNode(id) ==
  LET defs == {j \in DOMAIN Elements : Elements[j].type = "node" /\ Elements[j].id = id}
  IN Elements[CHOOSE j \in defs : \A k \in defs : k <= j]

DefinedNodes == {Elements[j].id : j \in {k \in DOMAIN Elements : Elements[k].type = "node"}}

\* the Node record of one definition: coordinates, id and allow-listed tags
NodeRecord(element) ==
  [k \in {"y", "x", "osmid"} \cup (useful_tags_node \cap DOMAIN RawTags(element)) |->
     IF k = "y" THEN element.lat
     ELSE IF k = "x" THEN element.lon
     ELSE IF k = "osmid" THEN element.id
     ELSE element.tags[k]]

NoDuplicates(seq) == \A j, k \in DOMAIN seq : seq[j] = seq[k] => j = k

C9_EmptyResponse ==
  /\ Len(Elements) = 0 =>
       /\ pc \in {"start", "raised"}
       /\ pc = "start" => ENABLED RaiseEmpty /\ ~ENABLED CreateGraph
       /\ G = NoGraph /\ nodes = EmptyDict /\ paths = EmptyDict
  /\ Len(Elements) >= 1 => pc # "raised" /\ ~ENABLED RaiseEmpty

C9_Witness ==
  /\ pc = "raised"
  /\ response_jsons = << [elements |-> << >>], [elements |-> << >>] >>
  /\ G = NoGraph

\* the positions of xs that begin a run of equal consecutive references
RunStarts(xs) == {j \in DOMAIN xs : j = 1 \/ xs[j] # xs[j - 1]}

\* xs with every maximal run of equal consecutive references cut to its first
FirstOfEachRun(xs) ==
  [m \in 1..Cardinality(RunStarts(xs)) |->
     xs[CHOOSE j \in RunStarts(xs) :
          Cardinality({k \in RunStarts(xs) : k <= j}) = m]]

NoAdjacentEqual(xs) == \A j \in 1..(Len(xs) - 1) : xs[j] # xs[j + 1]

\* C10: the node list of every converted path is the way's node list with each
\* maximal run of equal consecutive references replaced by one occurrence: it
\* has no two adjacent equal references and it is the input itself when the
\* input has none; [1,1,2,2,2,3] gives [1,2,3] and [1,2,1,1,2] gives [1,2,1,2].
C10_Reduce ==
  pc \in {"add_nodes", "add_paths"} =>
    \A id \in DOMAIN paths.val :
      "nodes" \in DOMAIN paths.val[id] =>
        LET xs == LastWay(id).nodes
            ys == paths.val[id].nodes
        IN /\ ys = FirstOfEachRun(xs)
           /\ NoAdjacentEqual(ys)
           /\ NoAdjacentEqual(xs) => ys = xs
           /\ xs = <<1, 1, 2, 2, 2, 3>> => ys = <<1, 2, 3>>
           /\ xs = <<1, 2, 1, 1, 2>> => ys = <<1, 2, 1, 2>>

C10_Witness ==
  /\ pc = "add_nodes"
  /\ OneWayInput(WayElement(10, <<1, 1, 2, 2, 2, 3>>, EmptyMap))
  /\ paths.val[10].nodes = <<1, 2, 3>>

\* C11: the reduction is idempotent: reducing the node list of a converted
\* path again gives the same list, the empty list included.
C11_ReduceIdempotent ==
  pc \in {"add_nodes", "add_paths"} =>
    \A id \in DOMAIN paths.val :
      "nodes" \in DOMAIN paths.val[id] =>
        groupby(paths.val[id].nodes) = paths.val[id].nodes

C11_Witness ==
  /\ pc = "add_nodes"
  /\ OneWayInput(WayElement(10, <<1, 1, 1, 2, 2>>, EmptyMap))
  /\ paths.val[10].nodes = <<1, 2>>
  /\ groupby(paths.val[10].nodes) = <<1, 2>>

\* the runs of the merged way id, decided on its converted path dict
RunsOf(id) ==
  LET d == _convert_path(LastWay(id)) IN TableRuns(d, d.nodes)

NodesAndWays(osm_data) ==
  [elements |-> SelectSeq(osm_data.elements, LAMBDA e : e.type \in {"node", "way"})]

\* C16: an element that is neither a node nor a way is skipped without
\* failure: parsing a batch merges the same nodes and paths as parsing the
\* batch without such elements, and leaves the graph alone.
C16_OtherTypesSkipped ==
  [][(pc = "parse" /\ b' = b + 1)
     => /\ pc' \in {"parse", "add_nodes"}
        /\ nodes' = dict_merge(nodes,
                       _parse_osm_nodes_paths(NodesAndWays(response_jsons[b])).nodes)
        /\ paths' = dict_merge(paths,
                       _parse_osm_nodes_paths(NodesAndWays(response_jsons[b])).paths)
        /\ G' = G]_vars

C16_Witness ==
  /\ pc = "done"
  /\ response_jsons =
       << [elements |-> <<RelationElement(20), WayElement(10, <<1, 2>>, EmptyMap)>>] >>
  /\ paths.keys = <<10>>
  /\ nodes.keys = << >>
  /\ DOMAIN G.nodes = {1, 2}
  /\ Len(G.edges) > 0

RECURSIVE TagMap(_, _, _)
TagMap(children, j, acc) ==
  IF j > Len(children) THEN acc
  ELSE TagMap(children, j + 1,
              IF children[j].name = "tag"
              THEN SetKey(acc, children[j].attrs.k, children[j].attrs.v)
              ELSE acc)

\* the node references of the nd children, in document order
Refs(children) ==
  LET nds == SelectSeq(children, LAMBDA c : c.name = "nd")
  IN [j \in DOMAIN nds |-> nds[j].ref]

\* the Overpass JSON element for the same data as the document's element x
JsonElement(x) ==
  IF x.name = "node"
  THEN NodeElement(x.id, x.lat, x.lon, TagMap(x.children, 1, EmptyMap))
  ELSE IF x.name = "way"
  THEN WayElement(x.id, Refs(x.children), TagMap(x.children, 1, EmptyMap))
  ELSE RelationElement(x.id)

\* the Overpass JSON batch for the same data as the document of f
JsonOf(f) == [elements |-> [j \in DOMAIN f.elements |-> JsonElement(f.elements[j])]]

IsNodeOrWay(x) == x.name \in {"node", "way"}

NodesAndWaysOnly(f) == \A j \in DOMAIN f.elements : IsNodeOrWay(f.elements[j])

\* C14: for a document of node and way elements, the element list of the
\* handler classifies to the same nodes and paths maps as the JSON batch for
\* the same data: same ids, x, y, allow-listed tags (a later tag of the same
\* key overwrites) and node references in document order.
C14_XmlJsonEquivalence ==
  /\ (pc = "start" /\ NodesAndWaysOnly(file))
       => _parse_osm_nodes_paths(response_jsons[1]) = _parse_osm_nodes_paths(JsonOf(file))
  /\ (pc = "add_nodes" /\ NodesAndWaysOnly(file))
       => /\ nodes = _parse_osm_nodes_paths(JsonOf(file)).nodes
          /\ paths = _parse_osm_nodes_paths(JsonOf(file)).paths

C14_Witness ==
  /\ pc = "add_nodes"
  /\ Len(file.elements) = 2
  /\ file.elements[1].attrs.id = <<"0", "1">>
  /\ file.elements[1].attrs.lat = <<"1", "2">>
  /\ file.elements[2].attrs.id = <<"0", "1", "0">>
  /\ nodes.keys = <<1>>
  /\ nodes.val[1] = [y |-> 12, x |-> 5, osmid |-> 1, highway |-> "stop"]
  /\ paths.keys = <<10>>
  /\ paths.val[10] = [osmid |-> 10, nodes |-> <<2, 1>>, oneway |-> "yes", name |-> "a"]

\* C15: when the byte stream becomes unparsable, at whatever event, reading
\* the file ends in an error: the parse goes on or raises, never returns, so
\* no element list reaches graph_from_file and no graph is constructed.
C15_MalformedFails ==
  file.malformed =>
    /\ pc \in {"open", "sax", "xml_raised", "type_raised"}
    /\ response_jsons = << >>
    /\ ~G.created
    /\ pc = "sax" => /\ ENABLED (StartElement \/ EndElement \/ RaiseSAXParseException)
                     /\ ~ENABLED ReturnObject

C15_Witness ==
  /\ pc = "xml_raised"
  /\ file.malformed
  /\ Len(handler.object.elements) > 0
  /\ response_jsons = << >>
  /\ ~G.created

\* a node or way element is open once the first n events are delivered
Open(events, n) ==
  \E s \in 1..n :
    /\ events[s].kind = "start" /\ events[s].name \in {"node", "way"}
    /\ \A m \in (s + 1)..n :
         ~(events[m].kind = "end" /\ events[m].name \in {"node", "way"})

\* C17: the handler holds an in-progress element only while a node or way
\* element is open; between top-level elements it holds none.
C17_InProgressOnlyWhileOpen ==
  pc = "sax" =>
    (handler._element # None => Open(sax_events(file), ev - 1))

\* the place of the end event of the j-th element below the root
EndPos(f, j) == 1 + Len(elements_events(SubSeq(f.elements, 1, j), 1))

\* the node and way elements whose end event is among the first n events
Closed(f, n) ==
  LET done == Cardinality({j \in DOMAIN f.elements : EndPos(f, j) <= n})
  IN SelectSeq(SubSeq(f.elements, 1, done), IsNodeOrWay)

\* C18: relation elements and their children give no output element: the
\* handler's list holds one element per node or way element closed so far, in
\* document order, and so does the list that is returned.
C18_RelationsNotEmitted ==
  /\ pc \in {"sax", "type_raised", "xml_raised"}
       => LET out == handler.object.elements
              closed == Closed(file, ev - 1)
          IN /\ Len(out) = Len(closed)
             /\ \A j \in DOMAIN out :
                  /\ heap[out[j]]["type"] = closed[j].name
                  /\ heap[out[j]]["id"] = closed[j].id
  /\ pc = "start"
       => LET out == response_jsons[1].elements
              all == SelectSeq(file.elements, IsNodeOrWay)
          IN /\ Len(out) = Len(all)
             /\ \A j \in DOMAIN out :
                  out[j]["type"] = all[j].name /\ out[j]["id"] = all[j].id

C18_Witness ==
  /\ pc = "start"
  /\ Len(file.elements) = 2
  /\ file.elements[1].name = "relation"
  /\ file.elements[2].name = "way"
  /\ Len(response_jsons[1].elements) = 1
  /\ response_jsons[1].elements[1]["type"] = "way"

\* event j is the start or end of a relation element or of one of its children
InRelation(events, j) ==
  \E s \in 1..j :
    /\ events[s].kind = "start" /\ events[s].name = "relation"
    /\ \A m \in s..(j - 1) : ~(events[m].kind = "end" /\ events[m].name = "relation")

\* the elements emitted so far, as a reader of handler.object sees them
Emitted == value_of(handler.object, heap).elements

\* C19: an event of a relation element or of its children leaves every
\* emitted element as it was and raises nothing.
C19_RelationLeavesEmitted ==
  [][(pc = "sax" /\ ev <= Len(sax_events(file)) /\ InRelation(sax_events(file), ev))
     => (pc' # "type_raised" /\ Emitted' = Emitted)]_vars

\* ------------------------------------------------------------------ short ways, self-loops
\* C21: a way whose reduced node list has fewer than two references adds no
\* edge and no node in any direction mode, and the assembly goes on to the
\* next way or ends without failure; the edges added before stay, and at the
\* end every other way has the edges of its runs.
C21_ShortWayNoEdges ==
  [][(pc = "add_paths" /\ Len(CurrentPath.nodes) < 2)
     => /\ G'.edges = G.edges
        /\ G'.nodes = G.nodes
        /\ i' = i + 1
        /\ pc' = (IF i = Len(paths.keys) THEN "done" ELSE "add_paths")
        /\ pc' = "done" =>
             \A id \in {paths.keys[j] : j \in DOMAIN paths.keys} :
               Pairs(SelectSeq(G'.edges, LAMBDA e : e.data["osmid"] = id)) = RunsOf(id)]_vars

C21_Witness ==
  /\ pc = "done"
  /\ paths.keys = <<11, 10>>
  /\ Elements[2] = WayElement(10, <<3, 3, 3>>, ("oneway" :> "-1"))
  /\ ~all_oneway /\ ~bidirectional
  /\ Pairs(G.edges) = << <<2, 1>> >>
  /\ EdgesOf(10) = << >>
  /\ DOMAIN G.nodes = {1, 2}

\* C23: no edge is a self-loop, whether its way was added forward, reversed
\* or in two runs.
C23_NoSelfLoop ==
  \A j \in DOMAIN G.edges : G.edges[j].u # G.edges[j].v

C23_Witness ==
  /\ pc = "done"
  /\ ~all_oneway /\ ~bidirectional
  /\ OneWayInput(WayElement(10, <<1, 1, 2, 2, 2, 1>>, EmptyMap))
  /\ Pairs(G.edges) = << <<1, 2>>, <<2, 1>>, <<2, 1>>, <<1, 2>> >>

C22_ScheduleIndependent ==
  /\ \A j \in DOMAIN workers :
       Returned(workers, response_jsons, j)
         => /\ workers[j].nodes = _parse_osm_nodes_paths(response_jsons[j]).nodes
            /\ workers[j].paths = _parse_osm_nodes_paths(response_jsons[j]).paths
  /\ pc = "merged"
       => /\ nodes = merged_maps(response_jsons).nodes
          /\ paths = merged_maps(response_jsons).paths
          /\ nodes = _parse_osm_nodes_paths([elements |-> all_elements(response_jsons)]).nodes
          /\ paths = _parse_osm_nodes_paths([elements |-> all_elements(response_jsons)]).paths

C22_Witness ==
  /\ pc = "merged"
  /\ response_jsons =
       << [elements |-> <<WayElement(10, <<1, 2>>, ("oneway" :> "yes") @@ ("name" :> "a"))>>],
          [elements |-> <<WayElement(10, <<2, 1, 1>>, EmptyMap)>>] >>
  /\ workers[1].paths.val[10].nodes = <<1, 2>>
  /\ workers[2].paths.val[10].nodes = <<2, 1>>
  /\ paths.val[10] = [osmid |-> 10, nodes |-> <<2, 1>>]

\* the second classification is ahead of the first
SecondClassificationAhead ==
  /\ pc = "classify"
  /\ Len(workers) = 2
  /\ Len(response_jsons[1].elements) = 2
  /\ Returned(workers, response_jsons, 2)
  /\ workers[1].pos = 2

====
